---- MODULE Spec2Model ----
(***************************************************************************)
(* Model of backtest_analyzer_gpt.py: the leveraged-liquidation simulator  *)
(* (analyze_liquidation_risk), the initial-capital detector                *)
(* (detect_initial_cap_from_workbook) and the over-optimisation            *)
(* diagnostics of main().                                                  *)
(*                                                                         *)
(* Floats are modelled as exact fractions [n, d] in lowest terms with      *)
(* d > 0; d = 0 encodes the IEEE specials (n = 1: +inf, n = -1: -inf,      *)
(* n = 0: NaN).  Every input of the model is a dyadic fraction or a small  *)
(* integer, for which the float operations of the code are exact or do not *)
(* sit on a comparison's tie.  Python's None / a value is modelled as the  *)
(* empty / one-element sequence.                                           *)
(***************************************************************************)
EXTENDS Integers, Sequences, FiniteSets, TLC

VARIABLES
    \* analyze_liquidation_risk
    df, init_cap, leverage, maintenance_margin_rate, assume_full_exposure,
    i, eq, equities, maintenance_multipliers, liquidation_index, result, pc,
    \* detect_initial_cap_from_workbook
    workbook, detected, dpc,
    \* main (diagnostics)
    trades_list, report, mpc

liqVars == <<df, init_cap, leverage, maintenance_margin_rate, assume_full_exposure,
             i, eq, equities, maintenance_multipliers, liquidation_index, result, pc>>
detVars == <<workbook, detected, dpc>>
mainVars == <<trades_list, report, mpc>>
vars == <<liqVars, detVars, mainVars>>

-----------------------------------------------------------------------------
(* Optional values *)

None == <<>>
Some(x) == <<x>>

-----------------------------------------------------------------------------
(* Float arithmetic *)

Abs(x) == IF x < 0 THEN -x ELSE x

RECURSIVE GCD(_, _)
GCD(a, b) == IF b = 0 THEN a ELSE GCD(b, a % b)

\* the fraction n/d (d > 0) in lowest terms
Frac(n, d) == LET g == GCD(Abs(n), d) IN [n |-> n \div g, d |-> d \div g]
OfInt(n) == [n |-> n, d |-> 1]
Zero == OfInt(0)
One == OfInt(1)
Inf == [n |-> 1, d |-> 0]
NegInf == [n |-> -1, d |-> 0]
NaN == [n |-> 0, d |-> 0]

IsNaN(x) == x.d = 0 /\ x.n = 0

\* x + y and x - y of finite floats
FAdd(x, y) == Frac(x.n * y.d + y.n * x.d, x.d * y.d)
FSub(x, y) == Frac(x.n * y.d - y.n * x.d, x.d * y.d)
\* x * y; nan and inf propagate as in IEEE arithmetic
FMul(x, y) ==
    IF x.d * y.d = 0
    THEN (IF x.n * y.n = 0 THEN NaN ELSE IF x.n * y.n > 0 THEN Inf ELSE NegInf)
    ELSE Frac(x.n * y.n, x.d * y.d)

\* numpy's x / y of finite floats: a zero divisor gives nan or a signed inf
FDiv(x, y) ==
    IF y.n = 0
    THEN (IF x.n = 0 THEN NaN ELSE IF x.n > 0 THEN Inf ELSE NegInf)
    ELSE IF y.n > 0 THEN Frac(x.n * y.d, x.d * y.n)
    ELSE Frac(-(x.n * y.d), x.d * (-y.n))

\* comparisons; every comparison with NaN is false, -inf is below and +inf
\* above every finite float
FLe(x, y) ==
    /\ ~IsNaN(x) /\ ~IsNaN(y)
    /\ IF x.d = 0 \/ y.d = 0
       THEN x = NegInf \/ y = Inf
       ELSE x.n * y.d <= y.n * x.d
FLt(x, y) ==
    /\ ~IsNaN(x) /\ ~IsNaN(y)
    /\ IF x.d = 0 \/ y.d = 0
       THEN x # y /\ (x = NegInf \/ y = Inf)
       ELSE x.n * y.d < y.n * x.d
FGt(x, y) == FLt(y, x)

FMin2(x, y) == IF FLe(x, y) THEN x ELSE y
FMax2(x, y) == IF FLe(x, y) THEN y ELSE x

RECURSIVE FSum(_)
FSum(s) == IF s = <<>> THEN Zero ELSE FAdd(s[1], FSum(Tail(s)))

\* np.min of a non-empty sequence of finite floats
RECURSIVE FMin(_)
FMin(s) == IF Len(s) = 1 THEN s[1] ELSE FMin2(s[1], FMin(Tail(s)))

SelectSeqNotNaN(s) == SelectSeq(s, LAMBDA x : ~IsNaN(x))

RECURSIVE FMaxSeq(_)
FMaxSeq(s) == IF Len(s) = 1 THEN s[1] ELSE FMax2(s[1], FMaxSeq(Tail(s)))

\* np.nanmax: the maximum of the entries that are not NaN, NaN if all are
NanMax(s) == IF SelectSeqNotNaN(s) = <<>> THEN NaN ELSE FMaxSeq(SelectSeqNotNaN(s))

\* np.maximum.accumulate of finite floats
MaximumAccumulate(s) == [k \in 1..Len(s) |-> FMaxSeq(SubSeq(s, 1, k))]

-----------------------------------------------------------------------------
(* analyze_liquidation_risk *)

MaxSteps == 3

DefaultInitCap == 300
DefaultLeverage == 10
DefaultRate == Frac(5, 1000)

\* the values of df['analysis_return']: signed fractions, NaN for a missing value
Returns == {Frac(-2, 1), Frac(-1, 1), Frac(-1, 2), Zero, Frac(1, 2), NaN}
InitCaps == {Zero, OfInt(DefaultInitCap)}
Leverages == {One, OfInt(DefaultLeverage)}
Rates == {Zero, DefaultRate, Frac(1, 2)}

SeqsUpTo(S, n) == UNION {[1..k -> S] : k \in 0..n}

\* Series.fillna(0)
FillNa(r) == IF IsNaN(r) THEN Zero ELSE r

PositionNotional(e) == IF assume_full_exposure THEN FMul(e, leverage) ELSE e

MaintenanceMarginAmount(e) == FMul(maintenance_margin_rate, PositionNotional(e))

Pnl(e, r) == FMul(e, r)

EqAfterFloored(e, r) == FMax2(Zero, FAdd(e, Pnl(e, r)))
EqAfter(e, r) == FAdd(e, Pnl(e, r))

LiquidationCheckStrict(eq_after, mma) == FLt(eq_after, mma)
LiquidationCheck(eq_after, mma) == FLe(eq_after, mma)

\* one iteration of the loop over the trades
LiqStep ==
    /\ pc = "loop"
    /\ i < Len(df)
    /\ LET r == FillNa(df[i + 1])
           mma == MaintenanceMarginAmount(eq)
           eq_after == EqAfter(eq, r)
       IN  /\ maintenance_multipliers' = Append(maintenance_multipliers, mma)
           /\ equities' = Append(equities, eq_after)
           /\ liquidation_index' =
                 IF LiquidationCheck(eq_after, mma) /\ liquidation_index = None
                 THEN Some(i) ELSE liquidation_index
           /\ eq' = eq_after
    /\ i' = i + 1
    /\ UNCHANGED <<df, init_cap, leverage, maintenance_margin_rate,
                   assume_full_exposure, result, pc>>
    /\ UNCHANGED <<detVars, mainVars>>

Drawdowns(es) ==
    LET peaks == MaximumAccumulate(es)
    IN  [k \in 1..Len(es) |-> FDiv(FSub(peaks[k], es[k]), peaks[k])]

MaxDrawdown(es) == IF Len(Drawdowns(es)) > 0 THEN NanMax(Drawdowns(es)) ELSE Zero

\* cushion stays None unless a maintenance amount was recorded
Cushion(min_equity, mms) ==
    IF mms # <<>>
    THEN Some(IF FGt(FMin(mms), Zero) THEN FDiv(min_equity, FMin(mms)) ELSE Inf)
    ELSE None

\* the post-processing after the loop and the returned dict
LiqReturn ==
    /\ pc = "loop"
    /\ i = Len(df)
    /\ result' = Some([
           init_cap |-> init_cap,
           leverage |-> leverage,
           maintenance_margin_rate |-> maintenance_margin_rate,
           liquidation_occurred |-> (liquidation_index # None),
           liquidation_trade_index |-> liquidation_index,
           min_equity |-> FMin(equities),
           final_equity |-> equities[Len(equities)],
           max_drawdown_pct |-> FMul(MaxDrawdown(equities), OfInt(100)),
           cushion_min |-> Cushion(FMin(equities), maintenance_multipliers),
           equity_series |-> equities])
    /\ pc' = "done"
    /\ UNCHANGED <<df, init_cap, leverage, maintenance_margin_rate,
                   assume_full_exposure, i, eq, equities, maintenance_multipliers,
                   liquidation_index>>
    /\ UNCHANGED <<detVars, mainVars>>

LiqIdle ==
    /\ df = <<>> /\ init_cap = Zero /\ leverage = Zero
    /\ maintenance_margin_rate = Zero /\ assume_full_exposure = TRUE
    /\ i = 0 /\ eq = Zero /\ equities = <<>> /\ maintenance_multipliers = <<>>
    /\ liquidation_index = None /\ result = None /\ pc = "idle"

DetIdle == workbook = [readable |-> FALSE, sheets |-> <<>>] /\ detected = None /\ dpc = "idle"

MainIdle == trades_list = <<>> /\ report = None /\ mpc = "idle"

\* the state on entry to the loop (lines 29-32), for every input
InitLiq ==
    /\ df \in SeqsUpTo(Returns, MaxSteps)
    /\ init_cap \in InitCaps
    /\ leverage \in Leverages
    /\ maintenance_margin_rate \in Rates
    /\ assume_full_exposure \in BOOLEAN
    /\ i = 0
    /\ eq = init_cap
    /\ equities = <<init_cap>>
    /\ maintenance_multipliers = <<>>
    /\ liquidation_index = None
    /\ result = None
    /\ pc = "loop"
    /\ DetIdle /\ MainIdle

NextLiq == LiqStep \/ LiqReturn

SpecLiq == InitLiq /\ [][NextLiq]_vars

-----------------------------------------------------------------------------
(* Claims about analyze_liquidation_risk, checked under SpecLiq *)

Range(s) == {s[k] : k \in 1..Len(s)}
LeastOf(S) == CHOOSE x \in S : \A y \in S : FLe(x, y)
LeastIndex(S) == CHOOSE j \in S : \A k \in S : j <= k

\* the maintenance amount of trade j (0-based), from the equity before the trade
PreTradeMaintenance(j) ==
    IF assume_full_exposure
    THEN FMul(maintenance_margin_rate, FMul(equities[j + 1], leverage))
    ELSE FMul(maintenance_margin_rate, equities[j + 1])

\* the trades among the first k whose post-trade equity is at or below it
Liquidating(k) == {j \in 0..(k - 1) : FLe(equities[j + 2], PreTradeMaintenance(j))}

FirstLiquidating(k) ==
    IF Liquidating(k) = {} THEN None ELSE Some(LeastIndex(Liquidating(k)))

\* C1: liquidation_trade_index is the smallest 0-based index whose post-trade
\* equity is <= the maintenance amount of the pre-trade notional; it is recorded
\* as soon as that trade is applied, later trades never change it, and it is
\* absent exactly when no trade qualifies; with capital 300, leverage 10, rate
\* 0.005, full exposure, the single trade -1.0 is recorded at index 0.
C1_FirstLiquidation ==
    /\ pc \in {"loop", "done"} => liquidation_index = FirstLiquidating(i)
    /\ pc = "done" =>
          /\ result[1].liquidation_trade_index = FirstLiquidating(Len(df))
          /\ result[1].liquidation_occurred = (Liquidating(Len(df)) # {})
    /\ ( /\ pc = "done"
         /\ init_cap = OfInt(300) /\ leverage = OfInt(10)
         /\ maintenance_margin_rate = Frac(5, 1000) /\ assume_full_exposure
         /\ df = <<Frac(-1, 1)>> )
       => result[1].liquidation_trade_index = Some(0)

\* a run liquidated by its first trade on the tie equity_after = maintenance,
\* followed by a trade that does not qualify
C1_Witness ==
    /\ pc = "done"
    /\ Len(df) >= 2
    /\ result[1].liquidation_trade_index = Some(0)
    /\ equities[2] = PreTradeMaintenance(0)
    /\ equities[2] # Zero
    /\ 1 \notin Liquidating(Len(df))

ReturnFraction(n) == IF IsNaN(df[n + 1]) THEN Zero ELSE df[n + 1]

RECURSIVE FPow(_, _)
FPow(x, n) == IF n = 0 THEN One ELSE FMul(x, FPow(x, n - 1))

\* C2: the equity series has one entry more than the trades applied, starts at
\* the initial capital and compounds, equity[n+1] = equity[n] * (1 + return[n]),
\* at every step, those at and after the liquidating trade included; a constant
\* return -p with 0 < p < 1 gives equity[n] = initial capital * (1 - p)^n.
C2_Compounding ==
    pc \in {"loop", "done"} =>
        /\ Len(equities) = i + 1
        /\ equities[1] = init_cap
        /\ \A n \in 0..(i - 1) :
              equities[n + 2] = FMul(equities[n + 1], FAdd(One, ReturnFraction(n)))
        /\ pc = "done" =>
              /\ result[1].equity_series = equities
              /\ Len(result[1].equity_series) = Len(df) + 1
        /\ \A r \in Range(df) :
              (Range(df) = {r} /\ FLt(r, Zero) /\ FLt(Frac(-1, 1), r)) =>
                  \A n \in 0..i : equities[n + 1] = FMul(init_cap, FPow(FAdd(One, r), n))

\* a finished run whose equity went negative on the liquidating first trade and
\* kept compounding afterwards
C2_Witness ==
    /\ pc = "done"
    /\ Len(df) = MaxSteps
    /\ liquidation_index = Some(0)
    /\ FLt(equities[2], Zero)
    /\ equities[Len(equities)] # equities[2]

\* C3: cushion_min is min(equity) / min(maintenance) when the least
\* maintenance amount is positive, and infinity when it is 0 or when the trade
\* sequence is empty.
C3_CushionAsClaimed ==
    pc = "done" =>
        /\ (maintenance_multipliers # <<>>
              /\ FGt(LeastOf(Range(maintenance_multipliers)), Zero)) =>
              result[1].cushion_min =
                  Some(FDiv(LeastOf(Range(equities)),
                            LeastOf(Range(maintenance_multipliers))))
        /\ (maintenance_multipliers # <<>>
              /\ LeastOf(Range(maintenance_multipliers)) = Zero) =>
              result[1].cushion_min = Some(Inf)
        /\ df = <<>> => result[1].cushion_min = Some(Inf)

\* C4: for an empty trade sequence and every initial capital the result is the
\* one-point equity series [initial capital], no liquidation and no index,
\* max_drawdown_pct = 0, and min_equity = final_equity = initial capital.
C4_EmptySeries ==
    (pc = "done" /\ df = <<>>) =>
        /\ result[1].equity_series = <<init_cap>>
        /\ result[1].liquidation_occurred = FALSE
        /\ result[1].liquidation_trade_index = None
        /\ result[1].max_drawdown_pct = Zero
        /\ result[1].min_equity = init_cap
        /\ result[1].final_equity = init_cap

-----------------------------------------------------------------------------
(* main: the over-optimisation diagnostics (steps 4 to 6)                  *)
(*                                                                         *)
(* trades_list is the list built by the row-pairing loop.  The report, a   *)
(* list of text lines in the code, is modelled as the record of the        *)
(* statistics those lines carry and of the warning lines appended; a       *)
(* statistic whose line is not appended is None.  The coefficient of       *)
(* variation is carried as its square, which keeps np.std exact:           *)
(* cv > 1.5 iff cv^2 > 9/4, both sides being non-negative.                 *)

MaxTrades == 3
MaxRun == 17
MaxTail == 2

MinTrades == 30
TopKLimit == 10

\* 'Net P&L %' values of the exit rows, in percent
PnlPcts == {-100, 50, 100}
\* exit dates <<year, month, day>>: three consecutive calendar months
Dates == {<<2023, 12, 1>>, <<2023, 12, 31>>, <<2024, 1, 15>>, <<2024, 2, 29>>}

MkTrades(ps, ds) ==
    [k \in 1..Len(ps) |-> [trade_id |-> k, pnl_pct |-> ps[k], date |-> ds[k]]]

\* short trade lists of every shape
ShortTrades ==
    UNION {{MkTrades(ps, ds) : ps \in [1..n -> PnlPcts], ds \in [1..n -> Dates]} :
             n \in 0..MaxTrades}

\* long trade lists: a run of one return followed by a few of another, same day
LongTrades ==
    {MkTrades([k \in 1..(n + m) |-> IF k <= n THEN a ELSE b],
              [k \in 1..(n + m) |-> <<2024, 1, 15>>]) :
        a \in PnlPcts, b \in PnlPcts, n \in (TopKLimit + 1)..MaxRun, m \in 0..MaxTail}

\* df['analysis_return'] = df['pnl_pct'] / 100.0
AnalysisReturn(t) == Frac(t.pnl_pct, 100)

AnalysisReturns(tl) == [k \in 1..Len(tl) |-> AnalysisReturn(tl[k])]

Min2(a, b) == IF a <= b THEN a ELSE b

RemoveAt(s, k) == SubSeq(s, 1, k - 1) \o SubSeq(s, k + 1, Len(s))

IndexOfMax(s) == CHOOSE k \in 1..Len(s) : \A j \in 1..Len(s) : FLe(s[j], s[k])
IndexOfMin(s) == CHOOSE k \in 1..Len(s) : \A j \in 1..Len(s) : FLe(s[k], s[j])

RECURSIVE NSmallest(_, _)
NSmallest(s, k) ==
    IF k = 0 \/ s = <<>> THEN <<>>
    ELSE <<s[IndexOfMin(s)]>> \o NSmallest(RemoveAt(s, IndexOfMin(s)), k - 1)

\* Series.nlargest(k): the k largest values, largest first
RECURSIVE NLargest(_, _)
NLargest(s, k) ==
    IF k = 0 \/ s = <<>> THEN <<>>
    ELSE <<s[IndexOfMax(s)]>> \o NLargest(RemoveAt(s, IndexOfMax(s)), k - 1)

\* the calendar month of a date, as a count of months
MonthOf(date) == date[1] * 12 + (date[2] - 1)

MonthsOf(tl) == {MonthOf(tl[k].date) : k \in 1..Len(tl)}
FirstMonth(tl) == CHOOSE m \in MonthsOf(tl) : \A o \in MonthsOf(tl) : m <= o
LastMonth(tl) == CHOOSE m \in MonthsOf(tl) : \A o \in MonthsOf(tl) : o <= m

MonthSum(tl, m) ==
    FSum(AnalysisReturns(SelectSeq(tl, LAMBDA t : MonthOf(t.date) = m)))

SetToSortedSeq(S) ==
    [k \in 1..Cardinality(S) |->
        CHOOSE m \in S : Cardinality({o \in S : o < m}) = k - 1]

\* one bin for each month in which a trade falls
MonthlyReturnsTradedOnly(tl) ==
    [k \in 1..Cardinality(MonthsOf(tl)) |->
        [month |-> SetToSortedSeq(MonthsOf(tl))[k],
         ret |-> MonthSum(tl, SetToSortedSeq(MonthsOf(tl))[k])]]
\* df.groupby(pd.Grouper(key='date', freq='M'))['analysis_return'].sum() of a
\* non-empty frame: one bin for every calendar month from the earliest to the
\* latest date, the sum of a month without trades being 0
MonthlyReturns(tl) ==
    [k \in 1..(LastMonth(tl) - FirstMonth(tl) + 1) |->
        [month |-> FirstMonth(tl) + k - 1, ret |-> MonthSum(tl, FirstMonth(tl) + k - 1)]]

Rets(mr) == [k \in 1..Len(mr) |-> mr[k].ret]

NegativeMonths(mr) == Cardinality({k \in 1..Len(mr) : FLt(mr[k].ret, Zero)})

FMean(xs) == FDiv(FSum(xs), OfInt(Len(xs)))

SquaredDeviations(xs) ==
    [k \in 1..Len(xs) |-> FMul(FSub(xs[k], FMean(xs)), FSub(xs[k], FMean(xs)))]

\* the variance with Bessel's correction (ddof = 1)
SampleVariance(xs) == FDiv(FSum(SquaredDeviations(xs)), OfInt(Len(xs) - 1))
\* np.std squared: the population variance (ddof = 0)
PopulationVariance(xs) == FDiv(FSum(SquaredDeviations(xs)), OfInt(Len(xs)))

\* cv = std_dev / abs(mean_return) if mean_return != 0 else inf, squared
CvSquared(xs) ==
    IF FMean(xs) # Zero
    THEN FDiv(PopulationVariance(xs), FMul(FMean(xs), FMean(xs)))
    ELSE Inf

\* the report of lines 229-269
Report(tl) ==
    LET n_trades == Len(tl)
        top_k == Min2(TopKLimit, n_trades)
        total_return == FSum(AnalysisReturns(tl))
        top_returns == FSum(NLargest(AnalysisReturns(tl), top_k))
        ratio == FDiv(top_returns, total_return)
        monthly_returns == MonthlyReturns(tl)
        negative_months == NegativeMonths(monthly_returns)
        total_months == Len(monthly_returns)
        cv2 == CvSquared(Rets(monthly_returns))
    IN  [n_trades |-> n_trades,
         few_trades_warning |-> (n_trades < MinTrades),
         top_k |-> top_k,
         ratio |-> IF FGt(total_return, Zero) THEN Some(ratio) ELSE None,
         concentration_warning |->
             FGt(total_return, Zero) /\ FGt(ratio, Frac(6, 10)),
         monthly_returns |-> IF n_trades > 0 THEN Some(monthly_returns) ELSE None,
         negative_months |->
             IF n_trades > 0 /\ total_months > 0 THEN Some(negative_months) ELSE None,
         negative_months_warning |->
             /\ n_trades > 0
             /\ total_months > 0
             /\ FGt(Frac(negative_months, total_months), Frac(4, 10)),
         cv2 |-> IF n_trades > 0 /\ total_months > 1 THEN Some(cv2) ELSE None,
         cv_warning |->
             n_trades > 0 /\ total_months > 1 /\ FGt(cv2, Frac(9, 4))]

NoCompletedTradesIgnored(tl) == FALSE
\* if not trades_list
NoCompletedTrades(tl) == tl = <<>>

\* no completed trade: main prints a message and returns before the report
MainNoTrades ==
    /\ mpc = "paired"
    /\ NoCompletedTrades(trades_list)
    /\ mpc' = "returned"
    /\ UNCHANGED <<trades_list, report>>
    /\ UNCHANGED <<liqVars, detVars>>

MainAnalyze ==
    /\ mpc = "paired"
    /\ ~NoCompletedTrades(trades_list)
    /\ report' = Some(Report(trades_list))
    /\ mpc' = "reported"
    /\ UNCHANGED trades_list
    /\ UNCHANGED <<liqVars, detVars>>

InitMain ==
    /\ trades_list \in ShortTrades \cup LongTrades
    /\ report = None
    /\ mpc = "paired"
    /\ LiqIdle /\ DetIdle

NextMain == MainNoTrades \/ MainAnalyze

SpecMain == InitMain /\ [][NextMain]_vars

-----------------------------------------------------------------------------
(* Claims about the diagnostics, checked under SpecMain *)

NoWarning(rep) ==
    /\ ~rep.few_trades_warning
    /\ ~rep.concentration_warning
    /\ ~rep.negative_months_warning
    /\ ~rep.cv_warning

\* C5 as stated: for an empty trade list the diagnostics complete and produce a
\* degenerate report in which none of the four warnings is fired.
C5_EmptyReportAsClaimed ==
    (trades_list = <<>> /\ mpc # "paired") =>
        /\ report # None
        /\ NoWarning(report[1])

\* C5 amended: for an empty trade list main stops before the diagnostics without
\* failing; no report is produced, and so no warning is fired.
C5_EmptyNoReport ==
    (trades_list = <<>> /\ mpc # "paired") =>
        /\ mpc = "returned"
        /\ report = None

\* main has returned on an empty trade list
C5_Witness == trades_list = <<>> /\ mpc = "returned" /\ report = None

ReturnValues(tl) == {AnalysisReturn(tl[k]) : k \in 1..Len(tl)}
CountOf(tl, v) == Cardinality({k \in 1..Len(tl) : AnalysisReturn(tl[k]) = v})
CountAbove(tl, v) == Cardinality({k \in 1..Len(tl) : FGt(AnalysisReturn(tl[k]), v)})
Max0(a) == IF a < 0 THEN 0 ELSE a

RECURSIVE SumOver(_, _, _)
SumOver(S, tl, k) ==
    IF S = {} THEN Zero
    ELSE LET v == CHOOSE x \in S : TRUE
         IN  FAdd(FMul(v, OfInt(Min2(CountOf(tl, v), Max0(k - CountAbove(tl, v))))),
                  SumOver(S \ {v}, tl, k))

\* the sum of the k largest returns, by counting: each value is taken as often
\* as it occurs, as far as the k places not taken by larger values reach
SumOfLargest(tl, k) == SumOver(ReturnValues(tl), tl, k)

RECURSIVE TotalReturn(_)
TotalReturn(tl) ==
    IF tl = <<>> THEN Zero ELSE FAdd(TotalReturn(Tail(tl)), AnalysisReturn(Head(tl)))

\* C6: with K = min(10, count), a strictly positive total return gives the ratio
\* (sum of the K largest returns) / (total return) and the concentration warning
\* iff ratio > 0.6; a total <= 0 gives neither ratio nor warning; so at most 10
\* trades with a positive total have ratio 1 and the warning.
C6_Concentration ==
    report # None =>
        LET tl == trades_list
            rep == report[1]
            k == IF Len(tl) < 10 THEN Len(tl) ELSE 10
        IN  /\ rep.top_k = k
            /\ FGt(TotalReturn(tl), Zero) =>
                  /\ rep.ratio = Some(FDiv(SumOfLargest(tl, k), TotalReturn(tl)))
                  /\ rep.concentration_warning =
                        (SumOfLargest(tl, k).n * TotalReturn(tl).d * 10
                            > 6 * TotalReturn(tl).n * SumOfLargest(tl, k).d)
            /\ ~FGt(TotalReturn(tl), Zero) =>
                  /\ rep.ratio = None
                  /\ ~rep.concentration_warning
            /\ (Len(tl) <= 10 /\ FGt(TotalReturn(tl), Zero)) =>
                  /\ rep.ratio = Some(One)
                  /\ rep.concentration_warning

\* more than 10 trades with a positive total of which the 10 largest carry no
\* more than 60%: a ratio is reported and the warning is not fired
C6_Witness ==
    /\ report # None
    /\ Len(trades_list) > 10
    /\ report[1].ratio # None
    /\ FLt(report[1].ratio[1], One)
    /\ ~report[1].concentration_warning

TradedMonths == {MonthOf(trades_list[k].date) : k \in 1..Len(trades_list)}

RECURSIVE SumInMonth(_, _)
SumInMonth(tl, m) ==
    IF tl = <<>> THEN Zero
    ELSE IF MonthOf(Head(tl).date) = m
         THEN FAdd(AnalysisReturn(Head(tl)), SumInMonth(Tail(tl), m))
         ELSE SumInMonth(Tail(tl), m)

Losing(months) == {m \in months : FLt(SumInMonth(trades_list, m), Zero)}

\* negative / total > 0.4
Above40Percent(negative, total) == 10 * negative > 4 * total

\* C7 as stated: one bucket per calendar month in which trades fall, each the
\* sum of its trades' returns; the warning fires iff (buckets with sum < 0) /
\* (buckets) > 0.4; nothing is reported when there is no bucket.
C7_BucketsAsClaimed ==
    report # None =>
        LET rep == report[1]
        IN  /\ Len(rep.monthly_returns[1]) = Cardinality(TradedMonths)
            /\ rep.negative_months = Some(Cardinality(Losing(TradedMonths)))
            /\ rep.negative_months_warning =
                  Above40Percent(Cardinality(Losing(TradedMonths)),
                                 Cardinality(TradedMonths))

Spanned == (CHOOSE a \in TradedMonths : \A o \in TradedMonths : a <= o)
              .. (CHOOSE b \in TradedMonths : \A o \in TradedMonths : o <= b)

\* C7 amended: there is one bucket for every calendar month from the month of
\* the earliest trade date to the month of the latest, each the sum of the
\* returns of the trades dated in it (0 for a month without trades); the warning
\* fires iff (buckets with sum < 0) / (buckets) > 0.4; a report always has at
\* least one bucket.
C7_BucketsAmended ==
    report # None =>
        LET rep == report[1]
            mr == rep.monthly_returns[1]
        IN  /\ rep.monthly_returns # None
            /\ Len(mr) = Cardinality(Spanned)
            /\ Len(mr) >= 1
            /\ {mr[k].month : k \in 1..Len(mr)} = Spanned
            /\ \A k \in 1..Len(mr) : mr[k].ret = SumInMonth(trades_list, mr[k].month)
            /\ \A k \in 1..(Len(mr) - 1) : mr[k].month < mr[k + 1].month
            /\ rep.negative_months = Some(Cardinality(Losing(Spanned)))
            /\ rep.negative_months_warning =
                  Above40Percent(Cardinality(Losing(Spanned)), Cardinality(Spanned))

\* a losing and a winning month around a month without trades: three buckets of
\* which one is negative, so no warning (one of two buckets would have fired it)
C7_Witness ==
    /\ report # None
    /\ Cardinality(TradedMonths) = 2
    /\ Len(report[1].monthly_returns[1]) = 3
    /\ report[1].monthly_returns[1][2].ret = Zero
    /\ report[1].negative_months = Some(1)
    /\ ~report[1].negative_months_warning

MonthlySums == [k \in 1..Len(report[1].monthly_returns[1]) |->
                  report[1].monthly_returns[1][k].ret]

RECURSIVE SumSeq(_)
SumSeq(xs) == IF xs = <<>> THEN Zero ELSE FAdd(Head(xs), SumSeq(Tail(xs)))

RECURSIVE SumSquares(_)
SumSquares(xs) ==
    IF xs = <<>> THEN Zero ELSE FAdd(FMul(Head(xs), Head(xs)), SumSquares(Tail(xs)))

MeanOf(xs) == FDiv(SumSeq(xs), OfInt(Len(xs)))

\* the population variance as E[x^2] - E[x]^2
VarianceOf(xs) ==
    FSub(FDiv(SumSquares(xs), OfInt(Len(xs))), FMul(MeanOf(xs), MeanOf(xs)))

\* C10: the coefficient of variation is evaluated iff there are at least two
\* monthly buckets; it is (population standard deviation of the monthly sums) /
\* |their mean|, infinity when the mean is exactly 0, and the warning fires iff
\* cv > 1.5, hence always for a mean of 0; below two buckets no cv is reported
\* and the warning is not fired.  (Stated on the squares: cv^2 against 9/4.)
C10_CoefficientOfVariation ==
    report # None =>
        LET rep == report[1]
            xs == MonthlySums
        IN  /\ (rep.cv2 # None) = (Len(xs) >= 2)
            /\ Len(xs) >= 2 =>
                  /\ MeanOf(xs) # Zero =>
                        /\ rep.cv2 = Some(FDiv(VarianceOf(xs), FMul(MeanOf(xs), MeanOf(xs))))
                        /\ rep.cv_warning =
                              (4 * VarianceOf(xs).n * MeanOf(xs).d * MeanOf(xs).d
                                  > 9 * MeanOf(xs).n * MeanOf(xs).n * VarianceOf(xs).d)
                  /\ MeanOf(xs) = Zero =>
                        /\ rep.cv2 = Some(Inf)
                        /\ rep.cv_warning
            /\ Len(xs) < 2 => ~rep.cv_warning

\* monthly sums that vary around a mean of exactly 0
C10_Witness ==
    /\ report # None
    /\ Len(MonthlySums) >= 2
    /\ MeanOf(MonthlySums) = Zero
    /\ VarianceOf(MonthlySums) # Zero
    /\ report[1].cv2 = Some(Inf)
    /\ report[1].cv_warning

-----------------------------------------------------------------------------
(* detect_initial_cap_from_workbook                                        *)
(*                                                                         *)
(* A workbook is the sequence of its sheets in file order, a sheet the     *)
(* array of its cells as read with header=None (arr, addressed arr[i+1]    *)
(* [j+1] for the code's arr[i, j]).  Read with a header, the first row     *)
(* gives the column labels and the other rows the data.  Text is a         *)
(* sequence of characters, so that str(), lower(), strip(), the keyword    *)
(* test and the numeric coercion are computed.  The sheet name is the      *)
(* sheet's position, and the source string is the record of its parts.     *)

MaxSheets == 2
MaxFilled == 4

GridRows == 10
GridCols == 5

Empty == [t |-> "nan", v |-> 0, s |-> <<>>]
Num(v) == [t |-> "num", v |-> v, s |-> <<>>]
Str(s) == [t |-> "str", v |-> 0, s |-> s]

TextCapital == <<"C", "a", "p", "i", "t", "a", "l">>
TextNotes == <<"N", "o", "t", "e", "s">>
Text500 == <<"5", "0", "0">>

label_keywords == <<
    <<"i", "n", "i", "t", "i", "a", "l">>,
    <<"s", "t", "a", "r", "t", "i", "n", "g">>,
    <<"s", "t", "a", "r", "t">>,
    <<"c", "a", "p", "i", "t", "a", "l">>,
    <<"b", "a", "l", "a", "n", "c", "e">>,
    <<"i", "n", "i", "t", "i", "a", "l", " ", "c", "a", "p", "i", "t", "a", "l">>,
    <<"i", "n", "i", "t", "i", "a", "l", " ", "b", "a", "l", "a", "n", "c", "e">> >>

UpperCase == <<"A", "B", "C", "D", "E", "F", "G", "H", "I", "J", "K", "L", "M",
               "N", "O", "P", "Q", "R", "S", "T", "U", "V", "W", "X", "Y", "Z">>
LowerCase == <<"a", "b", "c", "d", "e", "f", "g", "h", "i", "j", "k", "l", "m",
               "n", "o", "p", "q", "r", "s", "t", "u", "v", "w", "x", "y", "z">>
Digits == <<"0", "1", "2", "3", "4", "5", "6", "7", "8", "9">>

\* str.lower()
Lower(s) ==
    [k \in 1..Len(s) |->
        IF \E u \in 1..26 : UpperCase[u] = s[k]
        THEN LowerCase[CHOOSE u \in 1..26 : UpperCase[u] = s[k]]
        ELSE s[k]]

\* str.strip()
RECURSIVE Strip(_)
Strip(s) ==
    IF s = <<>> THEN s
    ELSE IF Head(s) = " " THEN Strip(Tail(s))
    ELSE IF s[Len(s)] = " " THEN Strip(SubSeq(s, 1, Len(s) - 1))
    ELSE s

\* k in s
Contains(k, s) ==
    \E a \in 1..(Len(s) - Len(k) + 1) : SubSeq(s, a, a + Len(k) - 1) = k

\* any(k in s for k in label_keywords)
HasKeyword(s) == \E n \in 1..Len(label_keywords) : Contains(label_keywords[n], s)

\* str() of a whole number
RECURSIVE IntStr(_)
IntStr(n) ==
    IF n < 10 THEN <<Digits[n + 1]>> ELSE IntStr(n \div 10) \o <<Digits[(n % 10) + 1]>>

DigitValue(c) == (CHOOSE d \in 1..10 : Digits[d] = c) - 1

RECURSIVE ParseDigits(_)
ParseDigits(s) ==
    IF s = <<>> THEN 0
    ELSE 10 * ParseDigits(SubSeq(s, 1, Len(s) - 1)) + DigitValue(s[Len(s)])

IsDigits(s) == s # <<>> /\ \A k \in 1..Len(s) : \E d \in 1..10 : Digits[d] = s[k]

\* str(cell) of a cell that is not missing
StrOf(cell) == IF cell.t = "num" THEN IntStr(cell.v) ELSE cell.s

\* pd.isna(cell)
IsNa(cell) == cell.t = "nan"

\* pd.to_numeric(cell, errors='coerce'): None stands for NaN
ToNumeric(cell) ==
    IF cell.t = "num" THEN Some(cell.v)
    ELSE IF cell.t = "str" /\ IsDigits(Strip(cell.s)) THEN Some(ParseDigits(Strip(cell.s)))
    ELSE None

NRows(arr) == Len(arr)
NCols(arr) == IF Len(arr) = 0 THEN 0 ELSE Len(arr[1])

\* the label of column j (0-based) of the sheet read with a header: the text of
\* the first row's cell, 'Unnamed: j' for a missing one
ColumnLabel(arr, j) ==
    IF IsNa(arr[1][j + 1])
    THEN <<"U", "n", "n", "a", "m", "e", "d", ":", " ">> \o IntStr(j)
    ELSE StrOf(arr[1][j + 1])

\* pd.to_numeric(df_sheet[col], errors='coerce').dropna() of column j
NumericSeries(arr, j) ==
    LET column == [r \in 1..(NRows(arr) - 1) |-> ToNumeric(arr[r + 1][j + 1])]
        kept == SelectSeq(column, LAMBDA x : x # None)
    IN  [k \in 1..Len(kept) |-> kept[k][1]]

LargestOfSeries(series) ==
    CHOOSE x \in {series[k] : k \in 1..Len(series)} :
        \A k \in 1..Len(series) : series[k] <= x
\* numeric_series.iloc[0]
FirstOfSeries(series) == series[1]

ColumnSource(k, j) == [kind |-> "column", sheet |-> k, row |-> 0, col |-> j]
LabelSource(k, r, c) == [kind |-> "label", sheet |-> k, row |-> r, col |-> c]
Found(value, source) == [value |-> Some(value), source |-> Some(source)]
NotFound == [value |-> None, source |-> None]

\* the columns of sheet k from column j on, in column order
RECURSIVE HeaderScanColumns(_, _, _)
HeaderScanColumns(sheets, k, j) ==
    IF NRows(sheets[k]) = 0 \/ j >= NCols(sheets[k]) THEN None
    ELSE IF /\ HasKeyword(Lower(ColumnLabel(sheets[k], j)))
            /\ NumericSeries(sheets[k], j) # <<>>
         THEN Some(Found(FirstOfSeries(NumericSeries(sheets[k], j)), ColumnSource(k, j)))
         ELSE HeaderScanColumns(sheets, k, j + 1)

\* pass 1 over the sheets from sheet k on, in workbook order
RECURSIVE HeaderScanSheets(_, _)
HeaderScanSheets(sheets, k) ==
    IF k > Len(sheets) THEN None
    ELSE IF HeaderScanColumns(sheets, k, 0) # None THEN HeaderScanColumns(sheets, k, 0)
    ELSE HeaderScanSheets(sheets, k + 1)

CandidateBelowFirst(arr, ci, cj) ==
    LET below == IF ci + 1 < NRows(arr) THEN Some(arr[ci + 2][cj + 1]) ELSE None
    IN  IF (below = None \/ IsNa(below[1])) /\ cj + 1 < NCols(arr)
        THEN Some(arr[ci + 1][cj + 2])
        ELSE below
\* the candidate of the label at arr[ci, cj]: the cell to the right, or the cell
\* below when there is none to the right or it is missing
Candidate(arr, ci, cj) ==
    LET right == IF cj + 1 < NCols(arr) THEN Some(arr[ci + 1][cj + 2]) ELSE None
    IN  IF (right = None \/ IsNa(right[1])) /\ ci + 1 < NRows(arr)
        THEN Some(arr[ci + 2][cj + 1])
        ELSE right

\* the body of the loops at arr[ci, cj]: the value returned there, if any
LabelMatch(arr, ci, cj) ==
    IF IsNa(arr[ci + 1][cj + 1]) THEN None
    ELSE IF ~HasKeyword(Lower(Strip(StrOf(arr[ci + 1][cj + 1])))) THEN None
    ELSE IF Candidate(arr, ci, cj) = None THEN None
    ELSE IF IsNa(Candidate(arr, ci, cj)[1]) THEN None
    ELSE ToNumeric(Candidate(arr, ci, cj)[1])

\* pass 2 from arr[ci, cj] of sheet k on: rows, then columns, then sheets
RECURSIVE LabelScan(_, _, _, _)
LabelScan(sheets, k, ci, cj) ==
    IF k > Len(sheets) THEN None
    ELSE IF ci >= Min2(GridRows, NRows(sheets[k])) THEN LabelScan(sheets, k + 1, 0, 0)
    ELSE IF cj >= (IF NCols(sheets[k]) > 0 THEN Min2(GridCols, NCols(sheets[k])) ELSE 0)
         THEN LabelScan(sheets, k, ci + 1, 0)
    ELSE IF LabelMatch(sheets[k], ci, cj) # None
         THEN Some(Found(LabelMatch(sheets[k], ci, cj)[1], LabelSource(k, ci + 1, cj + 1)))
    ELSE LabelScan(sheets, k, ci, cj + 1)

\* pd.read_excel raises: return None, None
DetReadFails ==
    /\ dpc = "start"
    /\ ~workbook.readable
    /\ detected' = Some(NotFound)
    /\ dpc' = "done"
    /\ UNCHANGED workbook
    /\ UNCHANGED <<liqVars, mainVars>>

\* pass 1: returns on the first keyword column with a numeric value
DetHeaderPass ==
    /\ dpc = "start"
    /\ workbook.readable
    /\ IF HeaderScanSheets(workbook.sheets, 1) # None
       THEN /\ detected' = HeaderScanSheets(workbook.sheets, 1)
            /\ dpc' = "done"
       ELSE /\ detected' = detected
            /\ dpc' = "labels"
    /\ UNCHANGED workbook
    /\ UNCHANGED <<liqVars, mainVars>>

\* the second pd.read_excel raises (the file was removed, replaced or locked
\* after the first read): return None, None
DetRereadFails ==
    /\ dpc = "labels"
    /\ workbook' = [workbook EXCEPT !.readable = FALSE]
    /\ detected' = Some(NotFound)
    /\ dpc' = "done"
    /\ UNCHANGED <<liqVars, mainVars>>

\* pass 2 on the sheets read again: returns on the first label cell with a
\* numeric candidate, else None, None
DetLabelPass ==
    /\ dpc = "labels"
    /\ detected' = IF LabelScan(workbook.sheets, 1, 0, 0) # None
                   THEN LabelScan(workbook.sheets, 1, 0, 0)
                   ELSE Some(NotFound)
    /\ dpc' = "done"
    /\ UNCHANGED workbook
    /\ UNCHANGED <<liqVars, mainVars>>

\* the sheet whose cells are the values of f at the positions <<row, column>> of
\* its domain and missing elsewhere, as large as the cells reach
MkSheet(f) ==
    LET P == DOMAIN f
        rows == IF P = {} THEN 0 ELSE 1 + (CHOOSE r \in {p[1] : p \in P} : \A p \in P : p[1] <= r)
        cols == IF P = {} THEN 0 ELSE 1 + (CHOOSE c \in {p[2] : p \in P} : \A p \in P : p[2] <= c)
    IN  [r \in 1..rows |-> [c \in 1..cols |->
            IF <<r - 1, c - 1>> \in P THEN f[<<r - 1, c - 1>>] ELSE Empty]]

\* the sheets of up to n cells of the kinds on the positions cells; the rows
\* and columns without a cell are read as missing
SheetsOn(cells, kinds, n) ==
    {MkSheet(f) : f \in UNION {[P -> kinds] :
                 P \in {Q \in SUBSET cells : Cardinality(Q) <= n}}}

NearCells == (0..2) \X (0..1)
TinyCells == (0..1) \X (0..1)
ColumnCells == (0..3) \X {0}
EdgeCells == {0, GridRows - 1, GridRows} \X {0, GridCols - 1, GridCols}

\* one sheet of up to MaxFilled cells of every kind in its top-left corner
OneSheetBooks ==
    {<<sh>> : sh \in SheetsOn(NearCells,
                  {Num(1000), Num(2000), Str(TextCapital), Str(TextNotes), Str(Text500)},
                  MaxFilled)}

\* one sheet of one column, with empty rows between its cells
OneColumnBooks ==
    {<<sh>> : sh \in SheetsOn(ColumnCells,
                  {Num(1000), Str(TextCapital), Str(TextNotes)}, MaxFilled)}

\* several small sheets
TinySheets == SheetsOn(TinyCells, {Num(1000), Str(TextCapital)}, 2)
ManySheetBooks == UNION {[1..n -> TinySheets] : n \in 2..MaxSheets}

\* one sheet with a label and a number around the edges of the 10 x 5 window
EdgeBooks ==
    {<<MkSheet((pq[1] :> Str(TextCapital)) @@ (pq[2] :> Num(1000)))>> :
        pq \in {x \in EdgeCells \X EdgeCells : x[1] # x[2]}}

Workbooks ==
    {[readable |-> TRUE, sheets |-> b] : b \in OneSheetBooks \cup OneColumnBooks \cup ManySheetBooks \cup EdgeBooks}
    \cup {[readable |-> FALSE, sheets |-> <<>>]}

InitDet ==
    /\ workbook \in Workbooks
    /\ detected = None
    /\ dpc = "start"
    /\ LiqIdle /\ MainIdle

NextDet == DetReadFails \/ DetHeaderPass \/ DetRereadFails \/ DetLabelPass

SpecDet == InitDet /\ [][NextDet]_vars

-----------------------------------------------------------------------------
(* Claims about the detector, checked under SpecDet *)

Sheets == workbook.sheets

\* the cell of sheet k at 0-based row r and column c
CellAt(k, r, c) == Sheets[k][r + 1][c + 1]

\* of the texts in the workbooks only 'Capital' contains a keyword
IsLabelText(cell) == cell.t = "str" /\ cell.s = TextCapital

\* the numeric cells are the numbers and the text '500'
IsNumericCell(cell) == cell.t = "num" \/ (cell.t = "str" /\ cell.s = Text500)
ValueOf(cell) == IF cell.t = "num" THEN cell.v ELSE 500

NumericRows(k, c) ==
    {r \in 1..(NRows(Sheets[k]) - 1) : IsNumericCell(CellAt(k, r, c))}

\* the keyword columns <<sheet, column>> that hold a numeric value
KeywordColumns ==
    UNION {{<<k, c>> : c \in {x \in 0..(NCols(Sheets[k]) - 1) :
                                 /\ IsLabelText(CellAt(k, 0, x))
                                 /\ NumericRows(k, x) # {}}} :
             k \in 1..Len(Sheets)}

FirstKeywordColumn ==
    CHOOSE a \in KeywordColumns :
        \A b \in KeywordColumns : a[1] < b[1] \/ (a[1] = b[1] /\ a[2] <= b[2])

\* C8: pass 1 returns the first numeric value, in row order, of the first column,
\* in sheet order and then column order, whose label contains a keyword and
\* which holds a numeric value; keyword columns without one are skipped; when
\* such a column exists the result is not from the label-cell pass, and pass 2
\* is entered only when none exists.
C8_HeaderPass ==
    /\ dpc = "labels" => KeywordColumns = {}
    /\ (dpc = "done" /\ workbook.readable) =>
          IF KeywordColumns # {}
          THEN LET k == FirstKeywordColumn[1]
                   c == FirstKeywordColumn[2]
                   r == LeastIndex(NumericRows(k, c))
               IN  detected = Some([value |-> Some(ValueOf(CellAt(k, r, c))),
                                    source |-> Some([kind |-> "column", sheet |-> k,
                                                     row |-> 0, col |-> c])])
          ELSE \/ detected[1].source = None
               \/ detected[1].source[1].kind = "label"

\* the first keyword column has no numeric value and is skipped; the second
\* holds 2000 above 1000 and 2000 is returned
C8_Witness ==
    /\ dpc = "done"
    /\ Len(Sheets) = 1
    /\ NRows(Sheets[1]) = 3 /\ NCols(Sheets[1]) = 2
    /\ IsLabelText(CellAt(1, 0, 0))
    /\ NumericRows(1, 0) = {}
    /\ CellAt(1, 1, 1) = Num(2000)
    /\ CellAt(1, 2, 1) = Num(1000)
    /\ detected = Some(Found(2000, ColumnSource(1, 1)))

\* the candidate of the label at row r, column c of sheet k: the cell to its
\* right if there is one and it is not empty, otherwise the cell below, if any
HasRight(k, r, c) == c + 1 < NCols(Sheets[k]) /\ CellAt(k, r, c + 1).t # "nan"
HasBelow(k, r, c) == r + 1 < NRows(Sheets[k])
NumericCandidate(k, r, c) ==
    IF HasRight(k, r, c) THEN IsNumericCell(CellAt(k, r, c + 1))
    ELSE HasBelow(k, r, c) /\ IsNumericCell(CellAt(k, r + 1, c))
CandidateValue(k, r, c) ==
    IF HasRight(k, r, c) THEN ValueOf(CellAt(k, r, c + 1))
    ELSE ValueOf(CellAt(k, r + 1, c))

\* the label cells <<sheet, row, column>> of the 10 x 5 windows with a numeric
\* candidate
LabelCells ==
    UNION {{<<k, rc[1], rc[2]>> :
              rc \in {x \in (0..(NRows(Sheets[k]) - 1)) \X (0..(NCols(Sheets[k]) - 1)) :
                        /\ x[1] < 10 /\ x[2] < 5
                        /\ IsLabelText(CellAt(k, x[1], x[2]))
                        /\ NumericCandidate(k, x[1], x[2])}} :
             k \in 1..Len(Sheets)}

FirstLabelCell ==
    CHOOSE a \in LabelCells :
        \A b \in LabelCells :
            \/ a[1] < b[1]
            \/ (a[1] = b[1] /\ a[2] < b[2])
            \/ (a[1] = b[1] /\ a[2] = b[2] /\ a[3] <= b[3])

\* C9: when pass 1 finds nothing, pass 2 returns the candidate's value for the
\* first keyword cell, in sheet order and row-major order inside the top-left
\* 10 x 5 window, whose candidate is numeric: the candidate is the cell to the
\* right when it exists and is not empty, else the cell below; a non-numeric
\* right cell is no match; the position reported is 1-based; with no such cell
\* the result is (None, None), as it is when the workbook cannot be read for
\* the pass.
C9_LabelPass ==
    (dpc = "done" /\ KeywordColumns = {}) =>
        IF workbook.readable /\ LabelCells # {}
        THEN LET k == FirstLabelCell[1]
                 r == FirstLabelCell[2]
                 c == FirstLabelCell[3]
             IN  detected = Some([value |-> Some(CandidateValue(k, r, c)),
                                  source |-> Some([kind |-> "label", sheet |-> k,
                                                   row |-> r + 1, col |-> c + 1])])
        ELSE detected = Some([value |-> None, source |-> None])

\* a label whose right cell is another label, with 2000 below it, is no match;
\* the label to its right, in the last column, takes the 1000 below it
C9_Witness ==
    /\ dpc = "done"
    /\ Len(Sheets) = 1
    /\ NRows(Sheets[1]) = 3 /\ NCols(Sheets[1]) = 2
    /\ IsLabelText(CellAt(1, 1, 0))
    /\ IsLabelText(CellAt(1, 1, 1))
    /\ CellAt(1, 2, 0) = Num(2000)
    /\ CellAt(1, 2, 1) = Num(1000)
    /\ detected = Some(Found(1000, LabelSource(1, 2, 2)))

====
